---- MODULE Spec2Model ----
(***************************************************************************)
(* Verification model of the devops-portal auth SDK: the token verifier,   *)
(* the Redis-backed state store client, the authorization resolver         *)
(* (ValidateTokenWithDynamicAuth), the Gin request gate (Authenticate,     *)
(* RequirePermission, RequireAnyPermission) and the permission matcher     *)
(* (checkPermission / matchesWildcardPermission).                          *)
(*                                                                         *)
(* Strings that the code takes apart (permissions, the force-logout        *)
(* timestamp) are sequences of one-character strings, so that              *)
(* strings.Split, strings.Contains, strconv.ParseInt and the formatting of *)
(* the timestamp are computed, not assumed.  JSON documents are given by   *)
(* their abstract syntax and decoded the way encoding/json decodes them.   *)
(***************************************************************************)
EXTENDS Integers, Sequences, FiniteSets, TLC

VARIABLES
    store,  \* the Redis entries of the subject: user:status, user:force_logout,
            \* user:dynamic_permissions, each absent or present with its text
    now,    \* the clock, in unix seconds (time.Now().Unix())
    last,   \* the operation in hand and what it returned: a request served by
            \* the gate (header, route, Authenticate's outcome with the
            \* resolver's AuthResult, store reads and warnings, the route
            \* check, the response code), or an administrative write
    match,  \* arguments and result of a call of checkPermission
    any,    \* arguments and result of a call of RequireAnyPermission, on a
            \* context and on the same context holding one permission more
    admin,  \* history: whether the status entry in the store is the one a
            \* SetUserStatus(false) wrote (or that entry has expired since),
            \* and whether the force_logout entry is the one SetForceLogout
            \* wrote
    call    \* one ValidateTokenWithDynamicAuth call taken read by read: its
            \* position, the read in flight, what it has built so far

vars == <<store, now, last, match, any, admin, call>>

(***************************************************************************)
(* Bounds of the model.                                                    *)
(***************************************************************************)
\* Largest unix second of the model clock; timestamps range over 0..MaxTime.
MaxTime == 2
\* Largest number of ":"-separated segments of a permission of the matcher's
\* input universe.
MaxSegs == 3

(***************************************************************************)
(* Permission strings.                                                     *)
(***************************************************************************)
\* The segments permissions of the input universe are built from: a plain
\* name, the wildcard, a name with an embedded "*", and the empty segment.
Segs == { <<"a">>, <<"*">>, <<"a", "*">>, <<>> }

RECURSIVE Join(_)
\* strings.Join(segs, ":")
Join(segs) ==
    IF Len(segs) = 0 THEN <<>>
    ELSE IF Len(segs) = 1 THEN segs[1]
    ELSE segs[1] \o <<":">> \o Join(Tail(segs))

\* Every permission string of 1..MaxSegs segments over Segs.
Perms == { Join(ss) : ss \in UNION { [1..n -> Segs] : n \in 1..MaxSegs } }

\* The permissions used by tokens, store entries and routes of the gate.
PA  == <<"a", ":", "a">>
PB  == <<"a", ":", "b">>
PW  == <<"a", ":", "*">>
CorePerms == { PA, PB, PW }

\* The permissions of the documented examples.
CDN   == <<"c", "d", "n">>
DNS   == <<"d", "n", "s">>
ZONES == <<"z", "o", "n", "e", "s">>
WRITE == <<"w", "r", "i", "t", "e">>
EXTRA == <<"e", "x", "t", "r", "a">>
STAR  == <<"*">>

CdnAll             == Join(<<CDN, STAR, STAR>>)
CdnZonesAll        == Join(<<CDN, ZONES, STAR>>)
CdnZonesWrite      == Join(<<CDN, ZONES, WRITE>>)
DnsZonesWrite      == Join(<<DNS, ZONES, WRITE>>)
CdnZonesWriteExtra == Join(<<CDN, ZONES, WRITE, EXTRA>>)

\* The required permissions of the matcher's inputs.
RequiredPerms == Perms \cup { CdnZonesWrite, DnsZonesWrite, CdnZonesWriteExtra }

\* The held lists of the matcher's inputs: every list of at most one
\* permission of Perms, every pair over a small set, and the held lists of
\* the documented examples.
PairPerms == CorePerms \cup { <<"*">>, <<"b">>, <<"*", ":", "*", ":", "*">> }
HeldLists ==
    { <<>> } \cup { <<h>> : h \in Perms }
             \cup { <<h1, h2>> : h1 \in PairPerms, h2 \in PairPerms }
             \cup { <<CdnAll>>, <<CdnZonesAll>>, <<CdnZonesWrite>> }

RECURSIVE Split(_)
\* strings.Split(s, ":"): the segments between the separators; one (empty)
\* segment for the empty string.
Split(s) ==
    IF s = <<>> THEN << <<>> >>
    ELSE LET rest == Split(Tail(s))
         IN  IF Head(s) = ":"
             THEN << <<>> >> \o rest
             ELSE << <<Head(s)>> \o rest[1] >> \o Tail(rest)

\* strings.Contains(s, "*")
ContainsStar(s) == \E i \in 1..Len(s) : s[i] = "*"

\* A plausible slip in matchesWildcardPermission: the segment-count test is
\* dropped and only the common prefix of segments is compared.
MatchesWildcardNoLen(userPerm, requiredPerm) ==
    /\ ContainsStar(userPerm)
    /\ LET userParts     == Split(userPerm)
           requiredParts == Split(requiredPerm)
       IN  \A i \in 1..Len(userParts) :
              i <= Len(requiredParts) =>
                 (userParts[i] = <<"*">> \/ userParts[i] = requiredParts[i])

\* GinMiddleware.matchesWildcardPermission
MatchesWildcardPermission(userPerm, requiredPerm) ==
    IF ~ContainsStar(userPerm) THEN FALSE
    ELSE LET userParts     == Split(userPerm)
             requiredParts == Split(requiredPerm)
         IN  IF Len(userParts) # Len(requiredParts) THEN FALSE
             ELSE \A i \in 1..Len(userParts) :
                     ~(userParts[i] # <<"*">> /\ userParts[i] # requiredParts[i])

\* One iteration of checkPermission's loop: the three tests made on one held
\* permission.
PermGrants(perm, requiredPermission) ==
    \/ perm = requiredPermission
    \/ perm = <<"*">> \/ perm = <<"*", ":", "*", ":", "*">>
    \/ MatchesWildcardPermission(perm, requiredPermission)

\* A plausible slip in checkPermission: only the first held permission is
\* looked at.
CheckPermissionFirstOnly(userPermissions, requiredPermission) ==
    /\ Len(userPermissions) > 0
    /\ PermGrants(Head(userPermissions), requiredPermission)

RECURSIVE CheckPermission(_, _)
\* GinMiddleware.checkPermission: the held permissions in order, true at the
\* first that grants.
CheckPermission(userPermissions, requiredPermission) ==
    IF Len(userPermissions) = 0 THEN FALSE
    ELSE IF PermGrants(Head(userPermissions), requiredPermission) THEN TRUE
    ELSE CheckPermission(Tail(userPermissions), requiredPermission)

(***************************************************************************)
(* Time and the force-logout timestamp text.                               *)
(***************************************************************************)
Digits == <<"0", "1", "2", "3", "4", "5", "6", "7", "8", "9">>

DigitVal(c) == CHOOSE d \in 0..9 : Digits[d + 1] = c

IsDigit(c) == \E d \in 0..9 : Digits[d + 1] = c

RECURSIVE FormatNat(_)
FormatNat(n) ==
    IF n < 10 THEN <<Digits[n + 1]>>
    ELSE FormatNat(n \div 10) \o <<Digits[(n % 10) + 1]>>

\* The decimal text go-redis stores for the int64 given to Set.
FormatInt(n) == IF n < 0 THEN <<"-">> \o FormatNat(-n) ELSE FormatNat(n)

RECURSIVE DigitsValue(_, _)
DigitsValue(s, acc) ==
    IF s = <<>> THEN acc
    ELSE DigitsValue(Tail(s), acc * 10 + DigitVal(Head(s)))

\* strconv.ParseInt(val, 10, 64): an optional sign, then one or more decimal
\* digits and nothing else.  (The values of the model are far from the
\* int64 range.)
ParseInt(val) ==
    LET signed == Len(val) > 0 /\ (val[1] = "+" \/ val[1] = "-")
        digits == IF signed THEN Tail(val) ELSE val
    IN  IF Len(digits) = 0 \/ \E i \in 1..Len(digits) : ~IsDigit(digits[i])
        THEN [ok |-> FALSE, n |-> 0]
        ELSE [ok |-> TRUE,
              n  |-> IF signed /\ val[1] = "-"
                     THEN 0 - DigitsValue(digits, 0)
                     ELSE DigitsValue(digits, 0)]

(***************************************************************************)
(* The store: the three Redis keys of the one subject of the model.        *)
(***************************************************************************)
\* Abstract syntax of the JSON text under user:status:{id}.
StatusDoc(syntax, isActive, updatedAt) ==
    [syntax |-> syntax, is_active |-> isActive, updated_at |-> updatedAt]

DocActive        == StatusDoc("object", "true", "rfc3339")
DocInactive      == StatusDoc("object", "false", "rfc3339")
DocEmptyObject   == StatusDoc("object", "absent", "absent")
DocNotJSON       == StatusDoc("invalid", "absent", "absent")
DocActiveString  == StatusDoc("object", "string", "rfc3339")
DocInactiveBadTime == StatusDoc("object", "false", "bad")

StatusDocs == { DocActive, DocInactive, DocEmptyObject, DocNotJSON,
                DocActiveString, DocInactiveBadTime }

\* Abstract syntax of the JSON text under user:dynamic_permissions:{id}.
StrItem(p) == [t |-> "string", s |-> p]
NumItem    == [t |-> "number", s |-> <<>>]

PermsDoc(syntax, t, items) ==
    [syntax |-> syntax, permissions |-> [t |-> t, items |-> items]]

PermsArray(items) == PermsDoc("object", "array", items)

PermsNotJSON   == PermsDoc("invalid", "absent", <<>>)
PermsNoField   == PermsDoc("object", "absent", <<>>)
PermsNotArray  == PermsDoc("object", "string", <<>>)

PermsDocs ==
    { PermsNotJSON, PermsNoField, PermsNotArray,
      PermsArray(<<>>),
      PermsArray(<<StrItem(PB)>>),
      PermsArray(<<StrItem(PB), StrItem(PA)>>),
      PermsArray(<<StrItem(PA), NumItem>>) }

\* The texts found under user:force_logout:{id}.
LogoutTexts == { FormatInt(t) : t \in 0..MaxTime } \cup { <<"x">>, <<"+", "1">> }

Absent(null)  == [present |-> FALSE, val |-> null]
Present(v)    == [present |-> TRUE, val |-> v]

AbsentStatus == Absent(DocNotJSON)
AbsentLogout == Absent(<<>>)
AbsentPerms  == Absent(PermsNotJSON)

EmptyStore ==
    [status |-> AbsentStatus, logout |-> AbsentLogout, perms |-> AbsentPerms]

\* redisClient.Get(ctx, key).Result(): redis.Nil for a missing key, another
\* error (and no text) when the store does not answer, the text otherwise.
RedisGet(entry, fail, null) ==
    IF fail THEN [err |-> "unavailable", val |-> null]
    ELSE IF ~entry.present THEN [err |-> "redis.Nil", val |-> null]
    ELSE [err |-> "", val |-> entry.val]

(***************************************************************************)
(* Tokens and their verification.                                          *)
(***************************************************************************)
ConfigIssuer == "auth-service"

NoTime     == [present |-> FALSE, unix |-> 0]
AtTime(t)  == [present |-> TRUE, unix |-> t]

Token(alg, sig, iss, exp, iat, perms) ==
    [alg |-> alg, sig |-> sig, iss |-> iss, exp |-> exp, iat |-> iat,
     user_id |-> "u1", permissions |-> perms]

GoodToken(iat, perms) ==
    Token("RS256", TRUE, ConfigIssuer, AtTime(MaxTime + 1), iat, perms)

\* Tokens the verifier accepts while unexpired: every issued-at (also none),
\* a second embedded permission list, and a token without an expiry claim.
GoodTokens ==
    { GoodToken(iat, <<PA>>) :
        iat \in { NoTime } \cup { AtTime(t) : t \in 0..MaxTime } }
    \cup { GoodToken(AtTime(1), <<PB, PA>>),
           Token("RS256", TRUE, ConfigIssuer, NoTime, AtTime(0), <<PA>>) }

\* Tokens with one defect each: HMAC-signed, bad signature, foreign issuer,
\* expiring at second 1.
BadTokens ==
    { Token("HS256", TRUE, ConfigIssuer, AtTime(MaxTime + 1), AtTime(0), <<PA>>),
      Token("RS256", FALSE, ConfigIssuer, AtTime(MaxTime + 1), AtTime(0), <<PA>>),
      Token("RS256", TRUE, "other", AtTime(MaxTime + 1), AtTime(0), <<PA>>),
      Token("RS256", TRUE, ConfigIssuer, AtTime(1), AtTime(0), <<PA>>) }

Tokens == GoodTokens \cup BadTokens

NullToken == Token("", FALSE, "", NoTime, NoTime, <<>>)

\* A header (or token string) is a sequence of parts: the literal "Bearer ",
\* another literal, or the compact serialization of a token.
Lit(text)  == [lit |-> text, tok |-> NullToken]
Jwt(tok)   == [lit |-> "jwt", tok |-> tok]
Bearer     == Lit("Bearer ")

SampleToken == GoodToken(AtTime(0), <<PA>>)

Headers ==
    { <<>> } \cup { <<Bearer, Jwt(tok)>> : tok \in Tokens }
             \cup { <<Jwt(SampleToken)>>, <<Lit("Basic "), Jwt(SampleToken)>>,
                    <<Bearer>>, <<Bearer, Bearer, Jwt(SampleToken)>> }

\* strings.TrimPrefix(s, "Bearer ")
TrimPrefix(s) == IF Len(s) > 0 /\ s[1] = Bearer THEN Tail(s) ELSE s

NullClaims ==
    [UserID |-> "", Permissions |-> <<>>, Issuer |-> "", IssuedAt |-> NoTime]

\* jwt.ParseWithClaims with the key function of ValidateToken: the text must
\* be one token, signed with an RSA method, with a valid signature, and not
\* expired (an expiry claim is checked only when the token has one; an
\* issued-at claim is not required).
JwtParseWithClaims(tokenString, t) ==
    IF Len(tokenString) # 1 \/ tokenString[1].lit # "jwt"
    THEN [err |-> "malformed", claims |-> NullClaims]
    ELSE LET tok == tokenString[1].tok
         IN  IF tok.alg \notin { "RS256", "RS384", "RS512" }
             THEN [err |-> "unexpected signing method", claims |-> NullClaims]
             ELSE IF ~tok.sig
             THEN [err |-> "signature is invalid", claims |-> NullClaims]
             ELSE IF tok.exp.present /\ ~(t < tok.exp.unix)
             THEN [err |-> "token is expired", claims |-> NullClaims]
             ELSE [err |-> "",
                   claims |-> [UserID |-> tok.user_id,
                               Permissions |-> tok.permissions,
                               Issuer |-> tok.iss,
                               IssuedAt |-> tok.iat]]

\* Client.ValidateToken
ValidateToken(tokenString, t) ==
    LET parsed == JwtParseWithClaims(TrimPrefix(tokenString), t)
    IN  IF parsed.err # ""
        THEN [err |-> "failed to parse token", claims |-> NullClaims]
        ELSE IF parsed.claims.Issuer # ConfigIssuer
        THEN [err |-> "invalid token issuer", claims |-> NullClaims]
        ELSE [err |-> "", claims |-> parsed.claims]

(***************************************************************************)
(* The store client's reads.                                               *)
(***************************************************************************)
\* json.Unmarshal([]byte(val), &status) for UserStatus: a syntax error, a
\* value of the wrong type for is_active, or an updated_at that is no
\* RFC 3339 time is an error; a missing is_active leaves the zero value.
UnmarshalUserStatus(doc) ==
    IF doc.syntax # "object" THEN [err |-> "json", IsActive |-> FALSE]
    ELSE IF doc.is_active = "string" THEN [err |-> "json", IsActive |-> FALSE]
    ELSE IF doc.updated_at = "bad"
    THEN [err |-> "json", IsActive |-> doc.is_active = "true"]
    ELSE [err |-> "", IsActive |-> doc.is_active = "true"]

\* json.Marshal(UserStatus{IsActive: isActive, UpdatedAt: time.Now()})
MarshalUserStatus(isActive) ==
    StatusDoc("object", IF isActive THEN "true" ELSE "false", "rfc3339")

\* A plausible slip in CheckUserStatus: the error paths answer false
\* (fail-closed) instead of true.
CheckUserStatusFailClosed(reply) ==
    IF reply.err # ""
    THEN IF reply.err = "redis.Nil" THEN [ret |-> TRUE, err |-> ""]
         ELSE [ret |-> FALSE, err |-> ""]
    ELSE LET status == UnmarshalUserStatus(reply.val)
         IN  IF status.err # ""
             THEN [ret |-> FALSE, err |-> ""]
             ELSE [ret |-> status.IsActive, err |-> ""]

\* A plausible slip in CheckUserStatus: a missing key answers false, as if
\* only a stored "active" could admit.
CheckUserStatusNilInactive(reply) ==
    IF reply.err # ""
    THEN IF reply.err = "redis.Nil" THEN [ret |-> FALSE, err |-> ""]
         ELSE [ret |-> TRUE, err |-> reply.err]
    ELSE LET status == UnmarshalUserStatus(reply.val)
         IN  IF status.err # ""
             THEN [ret |-> TRUE, err |-> "failed to parse user status"]
             ELSE [ret |-> status.IsActive, err |-> ""]

\* Client.CheckUserStatus, given the reply to its Get.
CheckUserStatus(reply) ==
    IF reply.err # ""
    THEN IF reply.err = "redis.Nil" THEN [ret |-> TRUE, err |-> ""]
         ELSE [ret |-> TRUE, err |-> reply.err]
    ELSE LET status == UnmarshalUserStatus(reply.val)
         IN  IF status.err # ""
             THEN [ret |-> TRUE, err |-> "failed to parse user status"]
             ELSE [ret |-> status.IsActive, err |-> ""]

\* A plausible slip in CheckForceLogout: >= where the code has >.
CheckForceLogoutGeq(reply, tokenIssuedAt) ==
    IF reply.err # ""
    THEN IF reply.err = "redis.Nil" THEN [ret |-> FALSE, err |-> ""]
         ELSE [ret |-> FALSE, err |-> reply.err]
    ELSE LET forceLogoutTimestamp == ParseInt(reply.val)
         IN  IF ~forceLogoutTimestamp.ok
             THEN [ret |-> FALSE, err |-> "failed to parse force logout timestamp"]
             ELSE [ret |-> forceLogoutTimestamp.n >= tokenIssuedAt, err |-> ""]

\* Client.CheckForceLogout, given the reply to its Get.
CheckForceLogout(reply, tokenIssuedAt) ==
    IF reply.err # ""
    THEN IF reply.err = "redis.Nil" THEN [ret |-> FALSE, err |-> ""]
         ELSE [ret |-> FALSE, err |-> reply.err]
    ELSE LET forceLogoutTimestamp == ParseInt(reply.val)
         IN  IF ~forceLogoutTimestamp.ok
             THEN [ret |-> FALSE, err |-> "failed to parse force logout timestamp"]
             ELSE [ret |-> forceLogoutTimestamp.n > tokenIssuedAt, err |-> ""]

\* The loop of GetUserDynamicPermissions: a string element is copied, any
\* other element leaves the empty string of make([]string, n).
ItemsToStrings(items) ==
    [i \in 1..Len(items) |->
        IF items[i].t = "string" THEN items[i].s ELSE <<>>]

\* A plausible slip in GetUserDynamicPermissions: an empty stored list is
\* reported like a missing entry's error, so that the caller falls back.
GetUserDynamicPermissionsEmptyErr(reply) ==
    IF reply.err # ""
    THEN IF reply.err = "redis.Nil" THEN [ret |-> <<>>, err |-> ""]
         ELSE [ret |-> <<>>, err |-> reply.err]
    ELSE IF reply.val.syntax # "object"
    THEN [ret |-> <<>>, err |-> "failed to parse cached permissions"]
    ELSE IF reply.val.permissions.t # "array"
            \/ Len(reply.val.permissions.items) = 0
    THEN [ret |-> <<>>, err |-> "invalid permissions format in cache"]
    ELSE [ret |-> ItemsToStrings(reply.val.permissions.items), err |-> ""]

\* Client.GetUserDynamicPermissions, given the reply to its Get.  (nil and
\* the empty slice are both the empty sequence.)
GetUserDynamicPermissions(reply) ==
    IF reply.err # ""
    THEN IF reply.err = "redis.Nil" THEN [ret |-> <<>>, err |-> ""]
         ELSE [ret |-> <<>>, err |-> reply.err]
    ELSE IF reply.val.syntax # "object"
    THEN [ret |-> <<>>, err |-> "failed to parse cached permissions"]
    ELSE IF reply.val.permissions.t # "array"
    THEN [ret |-> <<>>, err |-> "invalid permissions format in cache"]
    ELSE [ret |-> ItemsToStrings(reply.val.permissions.items), err |-> ""]

(***************************************************************************)
(* The authorization resolver.                                             *)
(***************************************************************************)
NullAuth ==
    [Claims |-> NullClaims, DynamicPermissions |-> <<>>,
     IsActive |-> FALSE, ShouldForceLogout |-> FALSE]

NoFails == [status |-> FALSE, logout |-> FALSE, perms |-> FALSE]

FailChoices == [status : BOOLEAN, logout : BOOLEAN, perms : BOOLEAN]

Read(key, reply) == [key |-> key, err |-> reply.err]

\* A plausible slip in ValidateTokenWithDynamicAuth: the permissions are
\* fetched before the force-logout marker is looked at.
ResolveActivePermsFirst(claims, st, fails, reads, logs) ==
    LET r3       == RedisGet(st.perms, fails.perms, PermsNotJSON)
        perms    == GetUserDynamicPermissions(r3)
        dynamicPermissions ==
                    IF perms.err # "" THEN claims.Permissions ELSE perms.ret
        logs3    == IF perms.err # ""
                    THEN <<"Failed to get dynamic permissions, using JWT permissions">>
                    ELSE <<>>
        r2       == RedisGet(st.logout, fails.logout, <<>>)
        logout   == CheckForceLogout(r2, claims.IssuedAt.unix)
        shouldForceLogout == IF logout.err # "" THEN FALSE ELSE logout.ret
        logs2    == IF logout.err # ""
                    THEN <<"Failed to check force logout, defaulting to false">>
                    ELSE <<>>
    IN  [outcome |-> "result", err |-> "",
         auth |-> [Claims |-> claims,
                   DynamicPermissions |-> dynamicPermissions,
                   IsActive |-> TRUE,
                   ShouldForceLogout |-> shouldForceLogout],
         reads |-> reads \o <<Read("user:dynamic_permissions", r3),
                              Read("user:force_logout", r2)>>,
         logs |-> logs \o logs3 \o logs2]

\* Steps 3 and 4 of ValidateTokenWithDynamicAuth, for an active subject
\* whose token carries an issued-at claim.
ResolveActive(claims, st, fails, reads, logs) ==
    LET r2       == RedisGet(st.logout, fails.logout, <<>>)
        logout   == CheckForceLogout(r2, claims.IssuedAt.unix)
        shouldForceLogout == IF logout.err # "" THEN FALSE ELSE logout.ret
        logs2    == IF logout.err # ""
                    THEN <<"Failed to check force logout, defaulting to false">>
                    ELSE <<>>
        r3       == RedisGet(st.perms, fails.perms, PermsNotJSON)
        perms    == GetUserDynamicPermissions(r3)
        dynamicPermissions ==
                    IF perms.err # "" THEN claims.Permissions ELSE perms.ret
        logs3    == IF perms.err # ""
                    THEN <<"Failed to get dynamic permissions, using JWT permissions">>
                    ELSE <<>>
    IN  [outcome |-> "result", err |-> "",
         auth |-> [Claims |-> claims,
                   DynamicPermissions |-> dynamicPermissions,
                   IsActive |-> TRUE,
                   ShouldForceLogout |-> shouldForceLogout],
         reads |-> reads \o <<Read("user:force_logout", r2),
                              Read("user:dynamic_permissions", r3)>>,
         logs |-> logs \o logs2 \o logs3]

\* A plausible slip in ValidateTokenWithDynamicAuth: the inactive account is
\* not short-circuited and resolution goes on to the other two reads.
ResolveNoShortCircuit(tokenString, st, t, fails) ==
    LET v == ValidateToken(tokenString, t)
    IN  IF v.err # ""
        THEN [outcome |-> "error", err |-> "token validation failed",
              auth |-> NullAuth, reads |-> <<>>, logs |-> <<>>]
        ELSE
        LET claims == v.claims
            r1     == RedisGet(st.status, fails.status, DocNotJSON)
            status == CheckUserStatus(r1)
            isActive == IF status.err # "" THEN TRUE ELSE status.ret
            full   == ResolveActive(claims, st, fails,
                                    <<Read("user:status", r1)>>, <<>>)
        IN  IF ~claims.IssuedAt.present
            THEN [outcome |-> "panic", err |-> "",
                  auth |-> [NullAuth EXCEPT !.Claims = claims,
                                            !.IsActive = isActive],
                  reads |-> <<Read("user:status", r1)>>, logs |-> <<>>]
            ELSE [full EXCEPT !.auth.IsActive = isActive]

\* Client.ValidateTokenWithDynamicAuth.  outcome is "error" (nil, err),
\* "result" (result, nil) or "panic": claims.IssuedAt is a nil pointer when
\* the token has no issued-at claim, and claims.IssuedAt.Unix() dereferences
\* it.  auth is the AuthResult as built so far; reads are the store reads
\* made, in order; logs are the warnings written.
ValidateTokenWithDynamicAuth(tokenString, st, t, fails) ==
    LET v == ValidateToken(tokenString, t)
    IN  IF v.err # ""
        THEN [outcome |-> "error", err |-> "token validation failed",
              auth |-> NullAuth, reads |-> <<>>, logs |-> <<>>]
        ELSE
        LET claims == v.claims
            r1     == RedisGet(st.status, fails.status, DocNotJSON)
            status == CheckUserStatus(r1)
            isActive == IF status.err # "" THEN TRUE ELSE status.ret
            logs1  == IF status.err # ""
                      THEN <<"Failed to check user status, defaulting to active">>
                      ELSE <<>>
            reads1 == <<Read("user:status", r1)>>
            result == [NullAuth EXCEPT !.Claims = claims, !.IsActive = isActive]
        IN  IF ~isActive
            THEN [outcome |-> "result", err |-> "", auth |-> result,
                  reads |-> reads1, logs |-> logs1]
            ELSE IF ~claims.IssuedAt.present
            THEN [outcome |-> "panic", err |-> "", auth |-> result,
                  reads |-> reads1, logs |-> logs1]
            ELSE ResolveActive(claims, st, fails, reads1, logs1)

(***************************************************************************)
(* The request gate.                                                       *)
(***************************************************************************)
StatusUnauthorized == 401
StatusForbidden    == 403

\* The keys of the gin context the middleware sets.
EmptyContext ==
    [has_user |-> FALSE, user_id |-> "", has_permissions |-> FALSE,
     permissions |-> <<>>]

NotCalled ==
    [outcome |-> "not called", err |-> "", auth |-> NullAuth,
     reads |-> <<>>, logs |-> <<>>]

Abort(code, message, res) ==
    [code |-> code, message |-> message, aborted |-> TRUE, next |-> FALSE,
     ctx |-> EmptyContext, res |-> res]

\* A plausible slip in Authenticate: the context gets the token's embedded
\* permissions instead of the resolved dynamic permissions.
ContextOfClaims(authResult) ==
    [has_user |-> TRUE, user_id |-> authResult.Claims.UserID,
     has_permissions |-> TRUE,
     permissions |-> authResult.Claims.Permissions]

\* Step 6 of Authenticate: the user context of an admitted request.
ContextOf(authResult) ==
    [has_user |-> TRUE, user_id |-> authResult.Claims.UserID,
     has_permissions |-> TRUE,
     permissions |-> authResult.DynamicPermissions]

\* A plausible slip in Authenticate: the forced-logout test is missing.
AuthenticateNoLogoutCheck(header, st, t, fails) ==
    LET tokenString == TrimPrefix(header)
        res == ValidateTokenWithDynamicAuth(tokenString, st, t, fails)
    IN  IF header = <<>>
        THEN Abort(StatusUnauthorized, "Missing authorization header", NotCalled)
        ELSE IF tokenString = header
        THEN Abort(StatusUnauthorized, "Invalid authorization header format",
                   NotCalled)
        ELSE IF res.outcome = "panic"
        THEN [code |-> 0, message |-> "", aborted |-> FALSE, next |-> FALSE,
              ctx |-> EmptyContext, res |-> res]
        ELSE IF res.outcome = "error"
        THEN Abort(StatusUnauthorized, "Invalid or expired token", res)
        ELSE IF ~res.auth.IsActive
        THEN Abort(StatusForbidden, "User account is disabled", res)
        ELSE [code |-> 0, message |-> "", aborted |-> FALSE, next |-> TRUE,
              ctx |-> ContextOf(res.auth), res |-> res]

\* GinMiddleware.Authenticate.  A panic of the resolver leaves the handler
\* without a response, an abort or a call of c.Next().
Authenticate(header, st, t, fails) ==
    LET tokenString == TrimPrefix(header)
        res == ValidateTokenWithDynamicAuth(tokenString, st, t, fails)
    IN  IF header = <<>>
        THEN Abort(StatusUnauthorized, "Missing authorization header", NotCalled)
        ELSE IF tokenString = header
        THEN Abort(StatusUnauthorized, "Invalid authorization header format",
                   NotCalled)
        ELSE IF res.outcome = "panic"
        THEN [code |-> 0, message |-> "", aborted |-> FALSE, next |-> FALSE,
              ctx |-> EmptyContext, res |-> res]
        ELSE IF res.outcome = "error"
        THEN Abort(StatusUnauthorized, "Invalid or expired token", res)
        ELSE IF ~res.auth.IsActive
        THEN Abort(StatusForbidden, "User account is disabled", res)
        ELSE IF res.auth.ShouldForceLogout
        THEN Abort(StatusUnauthorized, "Please login again", res)
        ELSE [code |-> 0, message |-> "", aborted |-> FALSE, next |-> TRUE,
              ctx |-> ContextOf(res.auth), res |-> res]

Pass == [code |-> 0, message |-> "", aborted |-> FALSE]

Deny(message) == [code |-> StatusForbidden, message |-> message, aborted |-> TRUE]

\* GinMiddleware.RequirePermission(permission)
RequirePermission(ctx, permission) ==
    IF ~ctx.has_permissions THEN Deny("No permissions found")
    ELSE IF ~CheckPermission(ctx.permissions, permission)
    THEN Deny("Insufficient permissions")
    ELSE Pass

\* A plausible slip in RequireAnyPermission: every required permission must
\* be granted instead of any one of them.
RequireEveryPermission(ctx, permissions) ==
    IF ~ctx.has_permissions THEN Deny("No permissions found")
    ELSE IF ~(\A i \in 1..Len(permissions) :
                 CheckPermission(ctx.permissions, permissions[i]))
    THEN Deny("Insufficient permissions")
    ELSE Pass

\* GinMiddleware.RequireAnyPermission(permissions...)
RequireAnyPermission(ctx, permissions) ==
    IF ~ctx.has_permissions THEN Deny("No permissions found")
    ELSE IF ~(\E i \in 1..Len(permissions) :
                 CheckPermission(ctx.permissions, permissions[i]))
    THEN Deny("Insufficient permissions")
    ELSE Pass

\* The middleware a route puts behind Authenticate: none, RequirePermission
\* of one permission, or RequireAnyPermission of a list.
Route(kind, perms) == [kind |-> kind, perms |-> perms]

Routes ==
    { Route("none", <<>>), Route("perm", <<PA>>), Route("perm", <<PB>>),
      Route("any", <<PA, PB>>), Route("any", <<>>) }

RouteCheck(route, ctx) ==
    IF route.kind = "perm" THEN RequirePermission(ctx, route.perms[1])
    ELSE IF route.kind = "any" THEN RequireAnyPermission(ctx, route.perms)
    ELSE Pass

\* One request through the chain Authenticate, the route's middleware, the
\* handler: gin runs the next handler unless the chain was aborted.
Serve(header, route, st, t, fails) ==
    LET gate  == Authenticate(header, st, t, fails)
        check == IF gate.next THEN RouteCheck(route, gate.ctx) ELSE Pass
    IN  [op |-> "request", header |-> header, route |-> route,
         gate |-> gate, check |-> check,
         code |-> IF gate.aborted THEN gate.code ELSE check.code,
         reached |-> gate.next /\ ~check.aborted]

(***************************************************************************)
(* The matcher as a pure function: inputs drawn by InitMatch, applied by   *)
(* ApplyMatch.                                                             *)
(***************************************************************************)
MatchIdle == [held |-> <<>>, required |-> <<>>, done |-> FALSE, result |-> FALSE]

Idle == [op |-> "idle"]

\* No call of RequireAnyPermission, no administrative write on record, no
\* resolver call under way.
AnyIdle == [done |-> FALSE]

AdminNone == [status |-> "none", logout |-> "none"]

CallIdle ==
    [pc |-> "idle", token |-> <<>>, hung |-> FALSE, deadline |-> FALSE,
     outcome |-> "", auth |-> NullAuth, reads |-> <<>>, logs |-> <<>>]

InitMatch ==
    /\ store = EmptyStore
    /\ now = 0
    /\ last = Idle
    /\ any = AnyIdle
    /\ admin = AdminNone
    /\ call = CallIdle
    /\ match \in { [held |-> h, required |-> r, done |-> FALSE, result |-> FALSE] :
                     h \in HeldLists, r \in RequiredPerms }

ApplyMatch ==
    /\ ~match.done
    /\ match' = [match EXCEPT !.done = TRUE,
                              !.result = CheckPermission(match.held, match.required)]
    /\ UNCHANGED <<store, now, last, any, admin, call>>

NextMatch == ApplyMatch

SpecMatch == InitMatch /\ [][NextMatch]_vars

(***************************************************************************)
(* RequireAnyPermission as a pure function: a context (one Authenticate    *)
(* filled, or one no Authenticate ran on), a required list and one more    *)
(* permission are drawn by InitAny; ApplyAny runs the middleware on the    *)
(* context and on the context holding the extra permission as well.        *)
(***************************************************************************)
\* Longest required list of the inputs.
MaxRequired == 2

ADMIN == <<"a", "d", "m", "i", "n">>
READ  == <<"r", "e", "a", "d">>

AdminAll     == Join(<<ADMIN, STAR, STAR>>)
DnsZonesRead == Join(<<DNS, ZONES, READ>>)

AnyPerms == CorePerms \cup { AdminAll, CdnZonesWrite, DnsZonesRead }

AnyRequired == UNION { [1..n -> AnyPerms] : n \in 0..MaxRequired }

AnyHeld ==
    { <<>> } \cup { <<h>> : h \in AnyPerms }
             \cup { <<PB, PA>>, <<PW, CdnZonesWrite>>, <<DnsZonesRead, PB>> }

\* c.Set("permissions", held) as Authenticate does it.
ContextHolding(held) ==
    [has_user |-> TRUE, user_id |-> "u1", has_permissions |-> TRUE,
     permissions |-> held]

AnyContexts == { EmptyContext } \cup { ContextHolding(h) : h \in AnyHeld }

\* The context with one more held permission, put first or last.
HoldingMore(ctx, extra, first) ==
    [ctx EXCEPT !.has_permissions = TRUE,
                !.permissions = IF first THEN <<extra>> \o @
                                ELSE Append(@, extra)]

InitAny ==
    /\ store = EmptyStore
    /\ now = 0
    /\ last = Idle
    /\ match = MatchIdle
    /\ admin = AdminNone
    /\ call = CallIdle
    /\ any \in { [ctx |-> c, permissions |-> r, extra |-> x, first |-> f,
                  done |-> FALSE, check |-> Pass, checkMore |-> Pass] :
                  c \in AnyContexts, r \in AnyRequired, x \in AnyPerms,
                  f \in BOOLEAN }

ApplyAny ==
    /\ ~any.done
    /\ any' = [any EXCEPT
                 !.done = TRUE,
                 !.check = RequireAnyPermission(any.ctx, any.permissions),
                 !.checkMore = RequireAnyPermission(
                                  HoldingMore(any.ctx, any.extra, any.first),
                                  any.permissions)]
    /\ UNCHANGED <<store, now, last, match, admin, call>>

NextAny == ApplyAny

SpecAny == InitAny /\ [][NextAny]_vars

(***************************************************************************)
(* One ValidateTokenWithDynamicAuth call taken read by read, against a     *)
(* store that may never answer.  A Get in flight ends when the store       *)
(* answers, when the client's socket timeout runs out (NewClient leaves    *)
(* the timeouts of redis.Options unset, so the client's defaults hold), or *)
(* when the caller's context, if it has a deadline, is done; the SDK wraps *)
(* no timeout of its own around the read.                                  *)
(***************************************************************************)
StatusKey == "user:status"
LogoutKey == "user:force_logout"
PermsKey  == "user:dynamic_permissions"

InFlight == { StatusKey, LogoutKey, PermsKey }

\* The stores a call runs against.
CallStores ==
    { EmptyStore,
      [EmptyStore EXCEPT !.status = Present(DocInactive)],
      [EmptyStore EXCEPT !.logout = Present(FormatInt(1))],
      [EmptyStore EXCEPT !.perms = Present(PermsArray(<<StrItem(PB)>>))],
      [status |-> Present(DocActive), logout |-> Present(FormatInt(0)),
       perms |-> Present(PermsNotJSON)] }

\* The reply of the store to the Get in flight, and the error the Get
\* returns when the store gave none in time.
StoreReply(key, st) ==
    IF key = StatusKey THEN RedisGet(st.status, FALSE, DocNotJSON)
    ELSE IF key = LogoutKey THEN RedisGet(st.logout, FALSE, <<>>)
    ELSE RedisGet(st.perms, FALSE, PermsNotJSON)

NoReply(key, st) ==
    IF key = StatusKey THEN RedisGet(st.status, TRUE, DocNotJSON)
    ELSE IF key = LogoutKey THEN RedisGet(st.logout, TRUE, <<>>)
    ELSE RedisGet(st.perms, TRUE, PermsNotJSON)

\* Step 2 of ValidateTokenWithDynamicAuth, once CheckUserStatus has its reply.
AfterStatus(c, reply) ==
    LET status   == CheckUserStatus(reply)
        isActive == IF status.err # "" THEN TRUE ELSE status.ret
        c1 == [c EXCEPT
                 !.auth.IsActive = isActive,
                 !.reads = Append(@, Read(StatusKey, reply)),
                 !.logs = IF status.err # ""
                          THEN Append(@, "Failed to check user status, defaulting to active")
                          ELSE @]
    IN  IF ~isActive
        THEN [c1 EXCEPT !.pc = "returned", !.outcome = "result"]
        ELSE IF ~c.auth.Claims.IssuedAt.present
        THEN [c1 EXCEPT !.pc = "panicked", !.outcome = "panic"]
        ELSE [c1 EXCEPT !.pc = LogoutKey]

\* Step 3, once CheckForceLogout has its reply.
AfterLogout(c, reply) ==
    LET logout == CheckForceLogout(reply, c.auth.Claims.IssuedAt.unix)
    IN  [c EXCEPT
           !.pc = PermsKey,
           !.auth.ShouldForceLogout =
               IF logout.err # "" THEN FALSE ELSE logout.ret,
           !.reads = Append(@, Read(LogoutKey, reply)),
           !.logs = IF logout.err # ""
                    THEN Append(@, "Failed to check force logout, defaulting to false")
                    ELSE @]

\* Step 4, once GetUserDynamicPermissions has its reply.
AfterPerms(c, reply) ==
    LET perms == GetUserDynamicPermissions(reply)
    IN  [c EXCEPT
           !.pc = "returned",
           !.outcome = "result",
           !.auth.DynamicPermissions =
               IF perms.err # "" THEN c.auth.Claims.Permissions ELSE perms.ret,
           !.reads = Append(@, Read(PermsKey, reply)),
           !.logs = IF perms.err # ""
                    THEN Append(@, "Failed to get dynamic permissions, using JWT permissions")
                    ELSE @]

Deliver(c, reply) ==
    IF c.pc = StatusKey THEN AfterStatus(c, reply)
    ELSE IF c.pc = LogoutKey THEN AfterLogout(c, reply)
    ELSE AfterPerms(c, reply)

InitCall ==
    /\ store \in CallStores
    /\ now = 0
    /\ last = Idle
    /\ match = MatchIdle
    /\ any = AnyIdle
    /\ admin = AdminNone
    /\ call = CallIdle

\* The call is made: step 1 verifies the token and, if it is accepted,
\* CheckUserStatus issues its Get.
CallBegin ==
    /\ call.pc = "idle"
    /\ \E tok \in Tokens, hung \in BOOLEAN, deadline \in BOOLEAN :
          LET tokenString == <<Jwt(tok)>>
              v == ValidateToken(tokenString, now)
              c == [CallIdle EXCEPT !.token = tokenString, !.hung = hung,
                                    !.deadline = deadline]
          IN  call' = IF v.err # ""
                      THEN [c EXCEPT !.pc = "returned", !.outcome = "error"]
                      ELSE [c EXCEPT !.pc = StatusKey,
                                     !.auth.Claims = v.claims]
    /\ UNCHANGED <<store, now, last, match, any, admin>>

\* The store answers the Get in flight.
StoreAnswers ==
    /\ call.pc \in InFlight
    /\ ~call.hung
    /\ call' = Deliver(call, StoreReply(call.pc, store))
    /\ UNCHANGED <<store, now, last, match, any, admin>>

\* The client's socket timeout runs out and the Get returns its error.
ReadTimeout ==
    /\ call.pc \in InFlight
    /\ call' = Deliver(call, NoReply(call.pc, store))
    /\ UNCHANGED <<store, now, last, match, any, admin>>

\* The caller's context is done and the Get returns its error.
ContextDone ==
    /\ call.pc \in InFlight
    /\ call.deadline
    /\ call' = Deliver(call, NoReply(call.pc, store))
    /\ UNCHANGED <<store, now, last, match, any, admin>>

\* The caller has the result (or the panic has unwound) and may call again.
CallEnd ==
    /\ call.pc \in { "returned", "panicked" }
    /\ call' = CallIdle
    /\ UNCHANGED <<store, now, last, match, any, admin>>

NextCall ==
    \/ CallBegin
    \/ StoreAnswers
    \/ ReadTimeout
    \/ ContextDone
    \/ CallEnd

\* The timeout of a Get in flight does run out, and a finished call is left.
SpecCall ==
    InitCall /\ [][NextCall]_vars /\ WF_vars(ReadTimeout) /\ WF_vars(CallEnd)

(***************************************************************************)
(* The system: requests served by the gate, the two administrative writes  *)
(* of the SDK, and the environment (other services writing the entries,    *)
(* Redis expiring them, time passing).  last holds the operation in hand   *)
(* and what it returned, until Complete.                                   *)
(***************************************************************************)
Init ==
    /\ store = EmptyStore
    /\ now = 0
    /\ last = Idle
    /\ match = MatchIdle
    /\ any = AnyIdle
    /\ admin = AdminNone
    /\ call = CallIdle

HandleRequest ==
    /\ last = Idle
    /\ \E header \in Headers, route \in Routes, fails \in FailChoices :
          last' = Serve(header, route, store, now, fails)
    /\ UNCHANGED <<store, now, match, any, admin, call>>

\* Client.SetUserStatus
SetUserStatus ==
    /\ last = Idle
    /\ \E isActive \in BOOLEAN, fail \in BOOLEAN :
          IF fail
          THEN /\ last' = [op |-> "SetUserStatus", isActive |-> isActive,
                           err |-> "failed to set user status"]
               /\ UNCHANGED <<store, admin>>
          ELSE /\ store' = [store EXCEPT
                              !.status = Present(MarshalUserStatus(isActive))]
               /\ admin' = [admin EXCEPT
                              !.status = IF isActive THEN "none" ELSE "inactive"]
               /\ last' = [op |-> "SetUserStatus", isActive |-> isActive,
                           err |-> ""]
    /\ UNCHANGED <<now, match, any, call>>

\* Client.SetForceLogout
SetForceLogout ==
    /\ last = Idle
    /\ \E fail \in BOOLEAN :
          IF fail
          THEN /\ last' = [op |-> "SetForceLogout", timestamp |-> now,
                           err |-> "failed to set force logout"]
               /\ UNCHANGED <<store, admin>>
          ELSE /\ store' = [store EXCEPT !.logout = Present(FormatInt(now))]
               /\ admin' = [admin EXCEPT !.logout = "set"]
               /\ last' = [op |-> "SetForceLogout", timestamp |-> now,
                           err |-> ""]
    /\ UNCHANGED <<now, match, any, call>>

\* Another service (or an operator) writes an entry.
ExternalWrite ==
    /\ last = Idle
    /\ \/ /\ \E doc \in StatusDocs :
                store' = [store EXCEPT !.status = Present(doc)]
          /\ admin' = [admin EXCEPT !.status = "none"]
       \/ /\ \E text \in LogoutTexts :
                store' = [store EXCEPT !.logout = Present(text)]
          /\ admin' = [admin EXCEPT !.logout = "none"]
       \/ /\ \E doc \in PermsDocs :
                store' = [store EXCEPT !.perms = Present(doc)]
          /\ UNCHANGED admin
    /\ UNCHANGED <<now, last, match, any, call>>

\* Redis drops an entry whose TTL has run out.
Expire ==
    /\ last = Idle
    /\ \/ /\ store.status.present
          /\ store' = [store EXCEPT !.status = AbsentStatus]
          /\ admin' = [admin EXCEPT
                         !.status = IF @ = "inactive" THEN "expired" ELSE @]
       \/ /\ store.logout.present
          /\ store' = [store EXCEPT !.logout = AbsentLogout]
          /\ admin' = [admin EXCEPT !.logout = "none"]
       \/ /\ store.perms.present
          /\ store' = [store EXCEPT !.perms = AbsentPerms]
          /\ UNCHANGED admin
    /\ UNCHANGED <<now, last, match, any, call>>

Tick ==
    /\ last = Idle
    /\ now < MaxTime
    /\ now' = now + 1
    /\ UNCHANGED <<store, last, match, any, admin, call>>

\* The operation in hand has returned to its caller.
Complete ==
    /\ last # Idle
    /\ last' = Idle
    /\ UNCHANGED <<store, now, match, any, admin, call>>

Next ==
    \/ HandleRequest
    \/ SetUserStatus
    \/ SetForceLogout
    \/ ExternalWrite
    \/ Expire
    \/ Tick
    \/ Complete

Spec == Init /\ [][Next]_vars

(***************************************************************************)
(* What the properties below speak about.                                  *)
(***************************************************************************)
IsRequest == last.op = "request"

\* The request in hand reached the resolver (its header had the prefix).
Resolving == IsRequest /\ last.gate.res.outcome # "not called"

\* The token of the request in hand, and what the verifier says of it.
HeaderToken == last.header[Len(last.header)].tok

Verified == Resolving /\ ValidateToken(TrimPrefix(last.header), now).err = ""

\* The resolver of the request in hand returned an AuthResult.
Returned == Resolving /\ last.gate.res.outcome = "result"

AuthResult == last.gate.res.auth

\* The n-th store read of the request in hand did not get an answer.
ReadFailed(n) ==
    /\ Len(last.gate.res.reads) >= n
    /\ last.gate.res.reads[n].err = "unavailable"

\* The n-th store read of the request in hand was made and answered with
\* the entry's text.
ReadAnswered(n) ==
    /\ Len(last.gate.res.reads) >= n
    /\ last.gate.res.reads[n].err = ""

\* A status document that decodes, and the flag it decodes to.
StatusDecodable(doc) ==
    /\ doc.syntax = "object"
    /\ doc.is_active \in { "true", "false", "absent" }
    /\ doc.updated_at # "bad"

\* A text that is a decimal integer: an optional sign and digits.
DecimalText(text) ==
    LET body == IF Len(text) > 0 /\ text[1] \in { "+", "-" }
                THEN Tail(text) ELSE text
    IN  /\ Len(body) > 0
        /\ \A i \in 1..Len(body) :
              body[i] \in { "0", "1", "2", "3", "4", "5", "6", "7", "8", "9" }

\* A permission document that is a JSON object with a "permissions" array
\* of strings, and the list it states.
PermsWellFormed(doc) ==
    /\ doc.syntax = "object"
    /\ doc.permissions.t = "array"
    /\ \A i \in 1..Len(doc.permissions.items) :
          doc.permissions.items[i].t = "string"

StoredList(doc) ==
    [i \in 1..Len(doc.permissions.items) |-> doc.permissions.items[i].s]

\* A permission document that cannot be decoded to a permission list at all.
PermsUndecodable(doc) ==
    doc.syntax # "object" \/ doc.permissions.t # "array"

(***************************************************************************)
(* C1.  For an accepted token of an active subject, when the               *)
(* user:dynamic_permissions entry is absent, unreachable or undecodable,   *)
(* the DynamicPermissions of the returned AuthResult are exactly the       *)
(* token's embedded Permissions.  The code does this for an unreachable    *)
(* or undecodable entry, not for an absent one.                            *)
(***************************************************************************)
C1_FallbackToTokenPermissions ==
    ( /\ Returned
      /\ AuthResult.IsActive
      /\ \/ ~store.perms.present
         \/ ReadFailed(3)
         \/ PermsUndecodable(store.perms.val) )
    => AuthResult.DynamicPermissions = HeaderToken.permissions

(***************************************************************************)
(* C2.  ValidateTokenWithDynamicAuth returns an error exactly when         *)
(* ValidateToken fails, and for every accepted token, whatever the three   *)
(* store reads answer, it returns an AuthResult and a nil error.           *)
(***************************************************************************)
C2_OnlyVerificationIsFatal ==
    Resolving =>
       /\ (last.gate.res.outcome = "error") <=> ~Verified
       /\ Verified => (last.gate.res.outcome = "result" /\ last.gate.res.err = "")

(***************************************************************************)
(* C3.  Fail-open defaults: with an accepted token, an absent, unreachable *)
(* or undecodable user:status entry gives IsActive = TRUE; an absent,      *)
(* unreachable or non-decimal user:force_logout entry gives                *)
(* ShouldForceLogout = FALSE; and the failure of one read leaves the other *)
(* reads resolved from their own entries.                                  *)
(***************************************************************************)
C3_FailOpenDefaults ==
    Verified =>
       /\ ( \/ ~store.status.present
            \/ ReadFailed(1)
            \/ ~StatusDecodable(store.status.val) )
          => AuthResult.IsActive
       /\ ( \/ ~store.logout.present
            \/ ReadFailed(2)
            \/ ~DecimalText(store.logout.val) )
          => ~AuthResult.ShouldForceLogout
       \* a status entry that was read and decodes is used, whatever became
       \* of the other reads
       /\ (ReadAnswered(1) /\ StatusDecodable(store.status.val))
          => (AuthResult.IsActive <=> store.status.val.is_active = "true")
       \* a marker that was read and parses is used, also when the status
       \* read or the permission read failed
       /\ (Returned /\ ReadAnswered(2) /\ DecimalText(store.logout.val))
          => (AuthResult.ShouldForceLogout
                <=> ParseInt(store.logout.val).n > HeaderToken.iat.unix)

\* The status read fails, the account is taken as active, and the marker
\* read still decides the forced logout.
C3_Witness ==
    /\ Returned
    /\ ReadFailed(1)
    /\ store.status.present /\ store.status.val = DocInactive
    /\ AuthResult.IsActive
    /\ ReadAnswered(2)
    /\ AuthResult.ShouldForceLogout
    /\ ReadFailed(3)

(***************************************************************************)
(* C4.  For an active subject whose force-logout marker m was read and is  *)
(* a decimal integer, and a token issued at i: ShouldForceLogout is TRUE   *)
(* exactly when m > i (FALSE when m = i).                                  *)
(***************************************************************************)
C4_ForceLogoutStrictlyAfterIssue ==
    ( /\ Returned
      /\ AuthResult.IsActive
      /\ HeaderToken.iat.present
      /\ ReadAnswered(2)
      /\ DecimalText(store.logout.val) )
    => ( AuthResult.ShouldForceLogout
           <=> ParseInt(store.logout.val).n > HeaderToken.iat.unix )

\* The marker equals the issued-at second and no logout is forced.
C4_Witness ==
    /\ Returned
    /\ AuthResult.IsActive
    /\ ReadAnswered(2)
    /\ store.logout.val = FormatInt(1)
    /\ HeaderToken.iat = AtTime(1)
    /\ ~AuthResult.ShouldForceLogout

(***************************************************************************)
(* C5.  For an active subject whose user:dynamic_permissions entry was     *)
(* read and is well-formed, DynamicPermissions is exactly the stored list, *)
(* replacing the token's Permissions (an empty stored list gives an empty  *)
(* result, not the token's list).                                          *)
(***************************************************************************)
C5_StoredPermissionsReplaceToken ==
    ( /\ Returned
      /\ AuthResult.IsActive
      /\ ReadAnswered(3)
      /\ PermsWellFormed(store.perms.val) )
    => AuthResult.DynamicPermissions = StoredList(store.perms.val)

\* The token embeds a:a, the store states the empty list, and the result
\* is empty.
C5_Witness ==
    /\ Returned
    /\ AuthResult.IsActive
    /\ ReadAnswered(3)
    /\ store.perms.val = PermsArray(<<>>)
    /\ HeaderToken.permissions = <<PA>>
    /\ AuthResult.DynamicPermissions = <<>>

(***************************************************************************)
(* C6.  When the user:status entry was read and decodes to                 *)
(* is_active = false, the resolver returns IsActive = FALSE,               *)
(* ShouldForceLogout = FALSE and empty DynamicPermissions whatever the     *)
(* other two entries hold, and Authenticate answers 403 whatever the       *)
(* route requires.                                                         *)
(***************************************************************************)
C6_InactiveShortCircuit ==
    ( /\ Verified
      /\ ReadAnswered(1)
      /\ StatusDecodable(store.status.val)
      /\ store.status.val.is_active # "true" )
    => /\ Returned
       /\ ~AuthResult.IsActive
       /\ ~AuthResult.ShouldForceLogout
       /\ AuthResult.DynamicPermissions = <<>>
       /\ last.gate.aborted
       /\ last.code = StatusForbidden
       /\ ~last.reached

\* An inactive account with a later marker and a stored permission list
\* that grants the route: the answer is 403.
C6_Witness ==
    /\ Verified
    /\ ReadAnswered(1)
    /\ store.status.val = DocInactive
    /\ store.logout.present /\ store.logout.val = FormatInt(2)
    /\ HeaderToken.iat = AtTime(0)
    /\ store.perms.present /\ store.perms.val = PermsArray(<<StrItem(PB)>>)
    /\ last.route = Route("perm", <<PB>>)
    /\ last.code = StatusForbidden

C8_PermissionChangeImmediate ==
    ( /\ IsRequest
      /\ last.route.kind = "perm"
      /\ last.gate.next
      /\ ReadAnswered(3)
      /\ PermsWellFormed(store.perms.val) )
    => LET p      == last.route.perms[1]
           stored == StoredList(store.perms.val)
           held(list) == \E i \in 1..Len(list) : list[i] = p
       IN  /\ last.reached <=> CheckPermission(stored, p)
           /\ ~last.reached => last.code = StatusForbidden
           \* removed from the store, still in the token: denied
           /\ (held(HeaderToken.permissions) /\ ~CheckPermission(stored, p))
                 => ~last.reached
           \* added to the store, not in the token: allowed
           /\ (held(stored) /\ ~held(HeaderToken.permissions))
                 => last.reached

\* The token embeds a:a, the stored list no longer has it, and the request
\* for a:a is denied.
C8_Witness ==
    /\ IsRequest
    /\ last.gate.next
    /\ ReadAnswered(3)
    /\ store.perms.val = PermsArray(<<StrItem(PB)>>)
    /\ HeaderToken.permissions = <<PA>>
    /\ last.route = Route("perm", <<PA>>)
    /\ ~last.reached
    /\ last.code = StatusForbidden

(***************************************************************************)
(* C9.  checkPermission(held, required) is TRUE exactly when some held     *)
(* permission h equals required, or is "*" or "*:*:*", or splits on ":"    *)
(* into as many segments as required with every segment "*" or equal to    *)
(* required's; with the examples of the specification.                     *)
(***************************************************************************)
C9_Grants(h, r) ==
    \/ h = r
    \/ h = <<"*">>
    \/ h = <<"*", ":", "*", ":", "*">>
    \/ LET hs == Split(h)
           rs == Split(r)
       IN  /\ Len(hs) = Len(rs)
           /\ \A j \in 1..Len(hs) : hs[j] = <<"*">> \/ hs[j] = rs[j]

C9_MatcherCharacterized ==
    match.done =>
       /\ match.result <=>
             \E i \in 1..Len(match.held) :
                C9_Grants(match.held[i], match.required)
       /\ match.held = <<match.required>> => match.result
       /\ match.held = <<>> => ~match.result
       /\ (match.held = <<CdnAll>> /\ match.required = CdnZonesWrite)
             => match.result
       /\ (match.held = <<CdnAll>> /\ match.required = DnsZonesWrite)
             => ~match.result
       /\ (match.held = <<CdnZonesAll>> /\ match.required = CdnZonesWriteExtra)
             => ~match.result

\* The documented wildcard example has been computed and matches.
C9_Witness ==
    /\ match.done
    /\ match.held = <<CdnAll>>
    /\ match.required = CdnZonesWrite
    /\ match.result

(***************************************************************************)
(* C10.  As claimed: a held permission h different from the required r     *)
(* whose segment count differs from r's never matches, wildcards or not.   *)
(***************************************************************************)
C10_SegmentCountMismatchNeverMatches ==
    ( /\ match.done
      /\ Len(match.held) = 1
      /\ match.held[1] # match.required
      /\ Len(Split(match.held[1])) # Len(Split(match.required)) )
    => ~match.result

(***************************************************************************)
(* C10, amended.  A held permission h different from r whose segment count *)
(* differs from r's does not match, unless h is the universal wildcard "*" *)
(* or "*:*:*", which grants every required permission.                     *)
(***************************************************************************)
C10_MismatchMatchesOnlyUniversal ==
    ( /\ match.done
      /\ Len(match.held) = 1
      /\ match.held[1] # match.required
      /\ Len(Split(match.held[1])) # Len(Split(match.required)) )
    => ( match.result
           <=> match.held[1] \in { <<"*">>, <<"*", ":", "*", ":", "*">> } )

\* Two wildcard segments against a one-segment permission: no match.
C10_Witness ==
    /\ match.done
    /\ match.held = << <<"*", ":", "*">> >>
    /\ match.required = <<"a">>
    /\ ~match.result

(***************************************************************************)
(* C11.  RequireAnyPermission lets the request through exactly when the    *)
(* context holds a permission list and checkPermission grants at least one *)
(* of the required permissions on it; otherwise (no list, an empty         *)
(* required list, no required permission granted) it aborts with 403; and  *)
(* holding one permission more never turns a pass into a denial.           *)
(***************************************************************************)
AnyLetThrough == ~any.check.aborted

AnyGranted ==
    /\ any.ctx.has_permissions
    /\ \E i \in 1..Len(any.permissions) :
          CheckPermission(any.ctx.permissions, any.permissions[i])

\* The example as the specification gives it, and as the README's route
\* gives it (the wildcard is among the required permissions).
AdminExample ==
    /\ any.ctx = ContextHolding(<<AdminAll>>)
    /\ any.permissions = <<CdnZonesWrite, DnsZonesRead>>

AdminRouteExample ==
    /\ any.ctx = ContextHolding(<<AdminAll>>)
    /\ any.permissions = <<CdnZonesWrite, AdminAll>>

AnyContract ==
    /\ AnyLetThrough <=> AnyGranted
    /\ ~AnyLetThrough => any.check.code = StatusForbidden
    /\ any.permissions = <<>> => ~AnyLetThrough
    /\ (any.ctx.has_permissions /\ AnyLetThrough) => ~any.checkMore.aborted

\* C11 as stated: the contract, and held ["admin:*:*"] is let through a
\* route requiring any of ["cdn:zones:write", "dns:zones:read"].
C11_AdminWildcardPassesAnyRoute ==
    any.done => (AnyContract /\ (AdminExample => AnyLetThrough))

\* C11 as amended: the contract; held ["admin:*:*"] is let through a route
\* requiring any of ["cdn:zones:write", "admin:*:*"] (it equals a required
\* permission), and is denied on ["cdn:zones:write", "dns:zones:read"],
\* whose first segments it does not match.
C11_RequireAnyPermission ==
    any.done =>
       /\ AnyContract
       /\ AdminRouteExample => AnyLetThrough
       /\ AdminExample => ~AnyLetThrough

\* The README's route has let the holder of "admin:*:*" through, and still
\* does with one more permission held.
C11_Witness ==
    /\ any.done
    /\ AdminRouteExample
    /\ AnyLetThrough
    /\ ~any.checkMore.aborted

(***************************************************************************)
(* C12.  While the marker SetForceLogout wrote at instant m is in the      *)
(* store, every accepted token issued at or before m (issued-at = m        *)
(* included) resolves with ShouldForceLogout TRUE and Authenticate answers *)
(* 401.  Stated for an active subject whose marker read was answered, so   *)
(* that no fallback is in play.  The code compares m > issued-at, so a     *)
(* token issued in the marker's own second stays valid.                    *)
(***************************************************************************)
\* The marker in the store is the one SetForceLogout wrote, and its instant.
MarkerSet == admin.logout = "set" /\ store.logout.present

MarkerInstant == ParseInt(store.logout.val).n

C12_MarkerForcesOutTokensUpToIt ==
    ( /\ MarkerSet
      /\ Returned
      /\ AuthResult.IsActive
      /\ ReadAnswered(2)
      /\ HeaderToken.iat.present
      /\ HeaderToken.iat.unix <= MarkerInstant )
    => ( /\ AuthResult.ShouldForceLogout
         /\ last.code = StatusUnauthorized )

(***************************************************************************)
(* C13.  The store operations of one ValidateTokenWithDynamicAuth call are *)
(* reads, and the keys read form a prefix of user:status,                  *)
(* user:force_logout, user:dynamic_permissions: nothing is read when       *)
(* verification fails, only the status when the call returns an inactive   *)
(* account, all three when it returns an active one (a call abandoned on   *)
(* the way has read a prefix).  Serving a request leaves the store as it   *)
(* was.                                                                    *)
(***************************************************************************)
AllReads == <<"user:status", "user:force_logout", "user:dynamic_permissions">>

ReadKeys ==
    [i \in 1..Len(last.gate.res.reads) |-> last.gate.res.reads[i].key]

IsPrefix(s, t) ==
    /\ Len(s) <= Len(t)
    /\ \A i \in 1..Len(s) : s[i] = t[i]

ReadsInOrder ==
    IsRequest =>
       /\ IsPrefix(ReadKeys, AllReads)
       /\ ~Verified => ReadKeys = <<>>
       /\ (Returned /\ ~AuthResult.IsActive) => ReadKeys = <<"user:status">>
       /\ (Returned /\ AuthResult.IsActive) => ReadKeys = AllReads

RequestStep == last = Idle /\ last'.op = "request"

C14_AcceptedTokensCarryIssuedAt ==
    Verified =>
       /\ HeaderToken.iat.present
       /\ AuthResult.IsActive => Returned

(***************************************************************************)
(* C15.  A deactivation lasts as long as its store entry.  While the entry *)
(* SetUserStatus(false) wrote is in the store, a resolution of an accepted *)
(* token returns IsActive FALSE and Authenticate answers 403; once the     *)
(* entry has expired and nothing was written since, a resolution takes the *)
(* account as active again and Authenticate admits the request (when the   *)
(* resolution returns with no forced logout pending), with no              *)
(* SetUserStatus(true) in between.                                         *)
(***************************************************************************)
Deactivated == admin.status = "inactive" /\ store.status.present

DeactivationExpired == admin.status = "expired" /\ ~store.status.present

Refused ==
    /\ Returned
    /\ ~AuthResult.IsActive
    /\ last.code = StatusForbidden

ActiveAgain ==
    /\ AuthResult.IsActive
    /\ (Returned /\ ~AuthResult.ShouldForceLogout) => last.gate.next

StoredStrings ==
    IF store.perms.present /\ store.perms.val.syntax = "object"
                           /\ store.perms.val.permissions.t = "array"
    THEN { store.perms.val.permissions.items[i].s :
              i \in { j \in 1..Len(store.perms.val.permissions.items) :
                         store.perms.val.permissions.items[j].t = "string" } }
    ELSE {}

TokenStrings ==
    { HeaderToken.permissions[i] : i \in 1..Len(HeaderToken.permissions) }

C16_NoPermissionFromNowhere ==
    Returned =>
       \A i \in 1..Len(AuthResult.DynamicPermissions) :
          AuthResult.DynamicPermissions[i] \in StoredStrings \cup TokenStrings

(***************************************************************************)
(* C17.  Every fallback of a resolution is logged: whenever a store read   *)
(* made for status, force-logout or dynamic permissions finds the key      *)
(* absent, gets no answer, or gets a text that cannot be decoded, the      *)
(* resolution writes a log entry for that read (telling the absent key     *)
(* from the store that could not answer presupposes an entry for each).    *)
(* The code logs nothing for an absent key.                                *)
(***************************************************************************)
ReadLogMessages ==
    <<"Failed to check user status, defaulting to active",
      "Failed to check force logout, defaulting to false",
      "Failed to get dynamic permissions, using JWT permissions">>

Logged(n) ==
    \E i \in 1..Len(last.gate.res.logs) :
       last.gate.res.logs[i] = ReadLogMessages[n]

ReadMade(n) == Len(last.gate.res.reads) >= n

KeyAbsent(n) == ReadMade(n) /\ last.gate.res.reads[n].err = "redis.Nil"

Undecodable(n) ==
    /\ ReadAnswered(n)
    /\ IF n = 1 THEN ~StatusDecodable(store.status.val)
       ELSE IF n = 2 THEN ~DecimalText(store.logout.val)
       ELSE PermsUndecodable(store.perms.val)

C17_EveryFallbackLogged ==
    Returned =>
       \A n \in 1..3 :
          (KeyAbsent(n) \/ ReadFailed(n) \/ Undecodable(n)) => Logged(n)

(***************************************************************************)
(* C18.  A store that never answers cannot hang the call: every Get in     *)
(* flight ends (with the store-unavailable error when no answer came), the *)
(* default is applied, and for every accepted token                        *)
(* ValidateTokenWithDynamicAuth eventually returns.  The reads do end, by  *)
(* the client's default socket timeout and not by one the SDK sets; the    *)
(* call of an accepted token without issued-at does not return, it panics. *)
(***************************************************************************)
C18_CallEventuallyReturns ==
    (call.pc \in InFlight) ~> (call.pc = "returned" /\ call.outcome = "result")

====
